---------------------------- MODULE Spec2Model ----------------------------
(***************************************************************************)
(* A model of gempy/library/tracing.py: the Aperture class (width setter,  *)
(* aperture_mask, extract, optimal_extraction), cwt_ricker, pinpoint_peaks, *)
(* find_peaks and trace_lines.                                              *)
(*                                                                         *)
(* Units.  Pixel coordinates are floats in the source.  The model keeps    *)
(* them as integers counted in HALF PIXELS, so that every 0.5 * x of the   *)
(* source is exact.  Dispersion positions of trace_lines (ypos, last_row)  *)
(* are likewise counted in half rows.                                      *)
(*                                                                         *)
(* Each component has its own specification (SpecAperture, SpecRicker,      *)
(* ...); the variables of the other components rest at their idle values.  *)
(***************************************************************************)
EXTENDS Integers, Sequences, FiniteSets, TLC

VARIABLES
    \* ---- Aperture (class Aperture)
    aper_lower,        \* self.aper_lower   (half pixels)
    aper_upper,        \* self.aper_upper   (half pixels)
    last_extraction,   \* self._last_extraction: None or <<lower, upper>>
    center_pixels,     \* TRUE iff the object holds the attribute _center_pixels
    ap_call,           \* the last call made on the object: its argument, how
                       \* it ended, what it logged and what it returned
    \* ---- cwt_ricker
    cwt_width,         \* width, in hundredths of a pixel
    cwt_len,           \* len(data)
    cwt_N,             \* the kernel length computed, None before the call
    cwt_out,           \* how the call ended
    \* ---- Aperture.optimal_extraction (the pixels of the aperture rows)
    opt_pc,            \* "loop" inside the while loop, "done" after the break
    iter,              \* iter
    max_iters,         \* max_iters: None or a number
    mask,              \* the pixels of the working mask that carry a BAD_BITS bit
    ext_mask,          \* the same for the caller's mask; None if there is none
    unmask,            \* unmask: the pixels used in the weighted sums
    last_unmask,       \* last_unmask
    \* ---- pinpoint_peaks
    pp_pc,             \* "enter", "peak" (next peak), "iter" (in the for loop),
                       \* "done" (returned), "raised"
    pp_halfwidth,      \* halfwidth as given by the caller (pixels)
    pp_zero,           \* all(masked_data == 0)
    pp_given,          \* len(peaks) of the call
    pp_peaks,          \* the peaks not yet visited (half pixels)
    final_peaks,       \* final_peaks (half pixels)
    xc,                \* xc (half pixels)
    dxlast,            \* dxlast (pixels)
    dxcheck,           \* dxcheck
    pp_i,              \* i of "for i in range(50)"
    \* ---- find_peaks
    fp_pc,             \* the stage that runs next, "done" or "raised"
    peaks,             \* peaks (pixels up to the removal of adjacent points,
                       \* half pixels after it)
    snr,               \* snr, pixel by pixel
    fp_mask,           \* the pixels where mask is set
    min_sep,           \* min_sep (half pixels)
    reject_bad,        \* reject_bad
    fp_T,              \* T, the array returned: a sequence of rows
    fp_sizes,          \* len(peaks) after each stage so far
    fp_iters,          \* passes of the min_sep loop that merged a pair
    \* ---- trace_lines
    tr_pc,             \* "start", "loop" (in the while loop), "done"
    step,              \* step, signed (rows)
    ypos,              \* ypos (half rows)
    lookback,          \* lookback
    last_coords,       \* last_coords: per feature <<row, peak>>, peak None
                       \* for nan
    coord_lists,       \* coord_lists: per feature the coordinates appended
    tr_dirs,           \* the directions still to trace after this one
    tr_in,             \* the call's arguments
    tr_peaks,          \* peaks, as pinpoint_peaks returned it at the last
                       \* step: Some(list), None when the step called it not
    missed,            \* per feature, the steps run in this direction since
                       \* its last coordinate
    \* ---- reject_bad_peaks
    rb_pc,             \* "call" before the call, "returned" after it
    rb_in,             \* peaks as the caller built it: (location, strength)
    rb_peaks,          \* peaks, the list object, as it is now
    \* ---- get_limits
    gl_pc,             \* "call", "returned" or "raised"
    gl_in,             \* the arguments, and the extrema of the fitted spline
    all_limits,        \* all_limits: (lower, upper) for each peak
    \* ---- trace_lines, the starting positions
    st_pc,             \* "call", "returned" or "raised"
    st_in,             \* initial, initial_tolerance, and what pinpoint_peaks
                       \* returns for initial
    initial_peaks      \* initial_peaks (half pixels)

apVars  == <<aper_lower, aper_upper, last_extraction, center_pixels, ap_call>>
cwtVars == <<cwt_width, cwt_len, cwt_N, cwt_out>>
optVars == <<opt_pc, iter, max_iters, mask, ext_mask, unmask, last_unmask>>
ppVars  == <<pp_pc, pp_halfwidth, pp_zero, pp_given, pp_peaks, final_peaks,
             xc, dxlast, dxcheck, pp_i>>
fpVars  == <<fp_pc, peaks, snr, fp_mask, min_sep, reject_bad, fp_T, fp_sizes,
             fp_iters>>
trVars  == <<tr_pc, step, ypos, lookback, last_coords, coord_lists, tr_dirs,
             tr_in, tr_peaks, missed>>
rbVars  == <<rb_pc, rb_in, rb_peaks>>
glVars  == <<gl_pc, gl_in, all_limits>>
stVars  == <<st_pc, st_in, initial_peaks>>
vars    == <<apVars, cwtVars, optVars, ppVars, fpVars, trVars, rbVars, glVars,
             stVars>>

\* what a call on one component leaves alone: the other components
notAp  == <<cwtVars, optVars, ppVars, fpVars, trVars,
           rbVars, glVars, stVars>>
notCwt == <<apVars, optVars, ppVars, fpVars, trVars,
           rbVars, glVars, stVars>>
notOpt == <<apVars, cwtVars, ppVars, fpVars, trVars,
           rbVars, glVars, stVars>>
notPp  == <<apVars, cwtVars, optVars, fpVars, trVars,
           rbVars, glVars, stVars>>
notFp  == <<apVars, cwtVars, optVars, ppVars, trVars,
           rbVars, glVars, stVars>>
notTr  == <<apVars, cwtVars, optVars, ppVars, fpVars,
           rbVars, glVars, stVars>>
notRb  == <<apVars, cwtVars, optVars, ppVars, fpVars, trVars, glVars,
           stVars>>
notGl  == <<apVars, cwtVars, optVars, ppVars, fpVars, trVars, rbVars,
           stVars>>
notSt  == <<apVars, cwtVars, optVars, ppVars, fpVars, trVars, rbVars,
           glVars>>

-----------------------------------------------------------------------------
(* Python helpers *)

\* Python's None, and a value that is not None
None == <<>>
Some(v) == <<v>>

Abs(x) == IF x < 0 THEN -x ELSE x
Min(a, b) == IF a <= b THEN a ELSE b
Max(a, b) == IF a >= b THEN a ELSE b

\* int(a / b) for b > 0: Python's int() truncates towards zero
TruncDiv(a, b) == IF a >= 0 THEN a \div b ELSE -((-a) \div b)

\* The indices selected by seq[lo:hi] on a sequence of length n, hi = None
\* meaning "to the end"; a negative bound counts from the end
PyIndex(k, n) == IF k < 0 THEN Max(k + n, 0) ELSE Min(k, n)
PySlice(lo, hi, n) ==
    LET a == PyIndex(lo, n)
        b == IF hi = None THEN n ELSE PyIndex(hi[1], n)
    IN  {k \in 0..(n - 1) : a <= k /\ k < b}

-----------------------------------------------------------------------------
(* Bounds of the model *)

\* widths given to the setter and to the calls run over -1..MaxWidth pixels
MaxWidth == 2
\* explicit aper_lower / aper_upper arguments run over -MaxOffset..MaxOffset
MaxOffset == 1
\* the image of aperture_mask: SlitLength spatial pixels, NPix dispersion pixels
SlitLength == 3
NPix == 2

\* A width in half pixels, for every whole number of pixels from -1 to MaxWidth
WidthArgs == {2 * k : k \in -1..MaxWidth}
OffsetArgs == -MaxOffset..MaxOffset
\* model(pixel): a tilted straight trace c0 + pixel / 2, c0 a whole number of
\* pixels, from below the image to above it
Models == {[i \in 0..(NPix - 1) |-> 2 * c0 + i] :
             c0 \in (-2)..(SlitLength + 1)}
\* (width, aper_lower, aper_upper) as a caller gives them: nothing, one
\* limit, both limits, a width alone, or a width together with limits
LimitArgs ==
    {<<None, None, None>>}
    \cup {<<None, (<<o>>), None>> : o \in OffsetArgs}
    \cup {<<None, None, (<<o>>)>> : o \in OffsetArgs}
    \cup {<<None, (<<lo>>), (<<up>>)>> : lo \in OffsetArgs, up \in OffsetArgs}
    \cup {<<(<<w>>), None, None>> : w \in WidthArgs}
    \cup {<<(<<2>>), (<<1>>), (<<-1>>)>>}
\* aperture_mask's (limits, grow)
MaskArgs ==
    {<<a, None>> : a \in LimitArgs}
    \cup {<<a, (<<1>>)>> : a \in {<<None, None, None>>, <<(<<2>>), None, None>>}}
\* (method, the extraction function raises)
MethodArgs == {<<"standard", FALSE>>, <<"optimal", FALSE>>,
               <<"standard", TRUE>>, <<"other", FALSE>>}

-----------------------------------------------------------------------------
(* class Aperture *)

\* a halving that does not halve
HalfWhole(value) == value
\* 0.5 * value, value an even number of half pixels
Half(value) == value \div 2

\* width.setter, the value is positive: self.aper_upper = 0.5 * value
SetterUpper(value) == Half(value)
\* a setter that forgets the sign of the lower edge
SetterLowerSameSign(value) == SetterUpper(value)
\* width.setter: self.aper_lower = -self.aper_upper
SetterLower(value) == -SetterUpper(value)

\* the width property's getter
Width == Abs(aper_upper - aper_lower)

\* the last call on the object: its name, the arguments it worked with,
\* what it raised, the warnings it logged and what it returned
CallWith(op, args, raised, warnings, ret) ==
    [op |-> op, value |-> 0, args |-> args, raised |-> raised,
     warnings |-> warnings, ret |-> ret]

Call(op, value, raised, warnings, ret) ==
    [op |-> op, value |-> value, args |-> <<>>, raised |-> raised,
     warnings |-> warnings, ret |-> ret]

\* Aperture.__init__: from a width (through the setter, which raises for a
\* width <= 0, and then no object exists) or from explicit offsets, which are
\* stored as given
ApertureInit ==
    /\ \E width \in {None} \cup {Some(w) : w \in WidthArgs},
          lo \in OffsetArgs, up \in OffsetArgs :
          IF width = None
          THEN /\ aper_lower = lo
               /\ aper_upper = up
               /\ ap_call = Call("init", 0, "none", {}, None)
          ELSE /\ width[1] > 0
               /\ lo = 0 /\ up = 0
               /\ aper_upper = SetterUpper(width[1])
               /\ aper_lower = SetterLower(width[1])
               /\ ap_call = Call("init_width", width[1], "none", {}, None)
    /\ last_extraction = None
    /\ center_pixels = FALSE

\* width.setter
SetWidth(value) ==
    /\ IF value > 0
       THEN /\ aper_upper' = SetterUpper(value)
            /\ aper_lower' = SetterLower(value)
            /\ ap_call' = Call("set_width", value, "none", {}, None)
       ELSE /\ UNCHANGED <<aper_lower, aper_upper>>
            /\ ap_call' = Call("set_width", value, "ValueError", {}, None)
    /\ UNCHANGED <<last_extraction, center_pixels, notAp>>

\* aperture_mask: the limits used, then one slice of True per dispersion pixel
MaskLower(width, lo, grow) ==
    LET l0 == IF width # None THEN -Half(width[1])
              ELSE IF lo = None THEN aper_lower ELSE lo[1]
    IN  IF grow = None THEN l0 ELSE l0 - grow[1]
MaskUpper(width, up, grow) ==
    LET u0 == IF width # None THEN Half(width[1])
              ELSE IF up = None THEN aper_upper ELSE up[1]
    IN  IF grow = None THEN u0 ELSE u0 + grow[1]
\* ix1 = np.where(x1 < -0.5, 0, (x1 + 0.5).astype(int))
Ix1(x1) == IF x1 < -1 THEN 0 ELSE TruncDiv(x1 + 1, 2)
\* ix2 = np.where(x2 >= slitlength - 0.5, None, (x2 + 1.5).astype(int))
Ix2(x2) == IF x2 >= 2 * SlitLength - 1 THEN None ELSE Some(TruncDiv(x2 + 3, 2))
\* apmask[i, slice(ix1, ix2)] = True
MaskRow(center, lower, upper) ==
    PySlice(Ix1(center + lower), Ix2(center + upper), SlitLength)

ApertureMask(width, lo, up, grow, model) ==
    /\ ap_call' = CallWith("aperture_mask",
                           <<MaskLower(width, lo, grow),
                             MaskUpper(width, up, grow), model>>,
                           "none", {},
                           [i \in 0..(NPix - 1) |->
                              MaskRow(model[i], MaskLower(width, lo, grow),
                                      MaskUpper(width, up, grow))])
    /\ UNCHANGED <<aper_lower, aper_upper, last_extraction, center_pixels, notAp>>

\* extract: the limits, swapped when inverted
ExtractLower0(width, lo) ==
    IF width # None THEN -Half(width[1])
    ELSE IF lo = None THEN aper_lower ELSE lo[1]
ExtractUpper0(width, up) ==
    IF width # None THEN Half(width[1])
    ELSE IF up = None THEN aper_upper ELSE up[1]
\* a lower limit that is never swapped
ExtractLowerUnswapped(width, lo, up) == ExtractLower0(width, lo)
ExtractLower(width, lo, up) ==
    Min(ExtractLower0(width, lo), ExtractUpper0(width, up))
ExtractUpper(width, lo, up) ==
    Max(ExtractLower0(width, lo), ExtractUpper0(width, up))
ExtractWarnings(width, lo, up) ==
    (IF ExtractLower0(width, lo) > ExtractUpper0(width, up)
        THEN {"lower limit is greater than upper limit"} ELSE {})
    \cup (IF ExtractLower(width, lo, up) > 0
        THEN {"lower limit is greater than zero"} ELSE {})
    \cup (IF ExtractUpper(width, lo, up) < 0
        THEN {"upper limit is less than zero"} ELSE {})
\* getattr(self, method + "_extraction") raises for a method the class has not;
\* the extraction function itself may raise (fails)
ExtractRaised(method, fails) ==
    IF method \notin {"standard", "optimal"} THEN "AttributeError"
    ELSE IF fails THEN "Exception" ELSE "none"

\* extract sets _center_pixels, calls the extraction function, and only
\* after it returns deletes _center_pixels and records _last_extraction
Extract(width, lo, up, method, fails) ==
    /\ center_pixels' = (ExtractRaised(method, fails) # "none")
    /\ last_extraction' =
          IF ExtractRaised(method, fails) = "none"
          THEN <<ExtractLower(width, lo, up), ExtractUpper(width, lo, up)>>
          ELSE last_extraction
    /\ ap_call' = CallWith("extract",
                           <<ExtractLower0(width, lo),
                             ExtractUpper0(width, up), method>>,
                           ExtractRaised(method, fails),
                           ExtractWarnings(width, lo, up), None)
    /\ UNCHANGED <<aper_lower, aper_upper, notAp>>

NextAperture ==
    \/ \E value \in WidthArgs : SetWidth(value)
    \/ \E a \in MaskArgs, model \in Models :
          ApertureMask(a[1][1], a[1][2], a[1][3], a[2], model)
    \/ \E a \in LimitArgs, m \in MethodArgs :
          Extract(a[1], a[2], a[3], m[1], m[2])

-----------------------------------------------------------------------------
(* cwt_ricker *)

\* widths run over 0.01 .. MaxRickerWidth/100 pixels, data lengths over 1..MaxLen
MaxRickerWidth == 130
MaxLen == 9

\* int(np.min([10 * width, len(data)])), width in hundredths of a pixel
RickerMin(width, len) == Min(width \div 10, len)
\* N = int(np.min([10 * width, len(data)])) // 2 * 2 - 1
RickerLength(width, len) == (RickerMin(width, len) \div 2) * 2 - 1

\* signal.ricker(N, width) of a length N < 1 is empty, and np.convolve
\* raises ValueError for an empty kernel
CwtRicker ==
    /\ cwt_N = None
    /\ cwt_N' = Some(RickerLength(cwt_width, cwt_len))
    /\ cwt_out' = IF RickerLength(cwt_width, cwt_len) < 1
                  THEN "ValueError" ELSE "returned"
    /\ UNCHANGED <<cwt_width, cwt_len, notCwt>>

RickerInit ==
    /\ cwt_width \in 1..MaxRickerWidth
    /\ cwt_len \in 1..MaxLen
    /\ cwt_N = None
    /\ cwt_out = "none"

NextRicker == CwtRicker

-----------------------------------------------------------------------------
(* Aperture.optimal_extraction: the iteration *)

\* the aperture rows hold OptPixels pixels; max_iters runs over 1..MaxMaxIters
OptPixels == 3
MaxMaxIters == 2
Pixels == 1..OptPixels

\* The state before the while loop.  unmask = np.ones_like(data), whatever
\* the mask holds; mask = mask[ix1:ix2] is a view of the caller's array, and
\* a mask of zeros is made when the caller has none.
OptimalInit ==
    /\ opt_pc = "loop"
    /\ iter = 0
    /\ max_iters \in {None} \cup {Some(n) : n \in 1..MaxMaxIters}
    /\ ext_mask \in {None} \cup {Some(bad) : bad \in SUBSET Pixels}
    /\ mask = IF ext_mask = None THEN {} ELSE ext_mask[1]
    /\ unmask = Pixels
    /\ last_unmask = Pixels

\* a loop that ends on iter > max_iters alone
OptimalBreakOnIters(um, last, it) == max_iters # None /\ it > max_iters[1]
\* the loop ends on an unchanged unmask, or on iter > max_iters
OptimalBreak(um, last, it) ==
    \/ um = last
    \/ max_iters # None /\ it > max_iters[1]

\* One pass of the while loop.  hits: the pixels whose deviation exceeds
\* cr_rej; the deviations are multiplied by unmask, so a pixel outside
\* unmask has deviation 0 and is not a hit.
OptimalIterate(hits) ==
    /\ opt_pc = "loop"
    /\ hits \subseteq unmask
    /\ mask' = mask \cup hits
    /\ ext_mask' = IF ext_mask = None THEN None ELSE Some(ext_mask[1] \cup hits)
    /\ last_unmask' = unmask
    /\ unmask' = Pixels \ mask'
    /\ iter' = iter + 1
    /\ opt_pc' = IF OptimalBreak(unmask', last_unmask', iter')
                 THEN "done" ELSE "loop"
    /\ UNCHANGED <<max_iters, notOpt>>

NextOptimal == \E hits \in SUBSET Pixels : OptimalIterate(hits)

-----------------------------------------------------------------------------
(* pinpoint_peaks *)

\* len(data), the longest list of peaks, and the largest halfwidth given
NPts == 6
MaxPeaks == 2
MaxHalfwidth == 3
\* for i in range(50)
MaxCentroidIters == 50
\* peaks given by the caller: from 3 pixels below the data to 2 above its end
PeakArgs == (-6)..(2 * (NPts + 2))
\* dx, in whole pixels: up to two pixels either way
DxArgs == (-2)..2

RECURSIVE SeqsUpTo(_, _)
\* the sequences over S of length at most n
SeqsUpTo(S, n) ==
    IF n = 0 THEN {<<>>}
    ELSE SeqsUpTo(S, n - 1)
         \cup {Append(q, x) : q \in {r \in SeqsUpTo(S, n - 1) : Len(r) = n - 1},
                              x \in S}

\* halfwidth = max(halfwidth, 2)
Halfwidth(hw) == Max(hw, 2)
\* xc = int(peak + 0.5), peak in half pixels, the result in pixels
StartPixel(peak) == TruncDiv(peak + 1, 2)
\* masked_data[max(xc - 1, 0):min(xc + 2, npts)]
SnapWindow(x, npts) == PySlice(Max(x - 1, 0), Some(Min(x + 2, npts)), npts)
\* xc < halfwidth or xc > npts - halfwidth, x in half pixels
TooCloseToEdge(x, hw, npts) == x < 2 * hw \/ x > 2 * (npts - hw)
\* max(-1, min(1, dx)), in half pixels
ClampStep(dx) == 2 * Max(-1, Min(1, dx))

PinpointInit ==
    /\ pp_pc = "enter"
    /\ pp_halfwidth \in 1..MaxHalfwidth
    /\ pp_zero \in BOOLEAN
    /\ pp_peaks \in SeqsUpTo(PeakArgs, MaxPeaks)
    /\ pp_given = Len(pp_peaks)
    /\ final_peaks = <<>>
    /\ xc = 0 /\ dxlast = 0 /\ dxcheck = 0 /\ pp_i = 0

\* the state on leaving the for loop: the next peak, or the return
AfterPeak(rest) == IF rest = <<>> THEN "done" ELSE "peak"

\* the function's head: leave at once if there is no data
PinpointEnter ==
    /\ pp_pc = "enter"
    /\ pp_pc' = IF pp_zero \/ pp_peaks = <<>> THEN "done" ELSE "peak"
    /\ UNCHANGED <<pp_halfwidth, pp_zero, pp_given, pp_peaks, final_peaks,
                   xc, dxlast, dxcheck, pp_i, notPp>>

\* The head of "for peak in peaks": snap to the brightest of the three
\* pixels around the peak (k is np.argmax's answer, an index into the
\* window, which raises ValueError when the window is empty), and skip a
\* peak too close to an edge.
PinpointSnap(k) ==
    /\ pp_pc = "peak"
    /\ LET peak == Head(pp_peaks)
           window == SnapWindow(StartPixel(peak), NPts)
           x == 2 * (k + StartPixel(peak) - 1)
       IN  IF window = {}
           THEN /\ k = 0
                /\ pp_pc' = "raised"
                /\ UNCHANGED <<pp_peaks, xc, dxlast, dxcheck, pp_i>>
           ELSE /\ k < Cardinality(window)
                /\ pp_peaks' = Tail(pp_peaks)
                /\ xc' = x
                /\ dxlast' = 2 * Halfwidth(pp_halfwidth) + 1
                /\ dxcheck' = 0
                /\ pp_i' = 0
                /\ pp_pc' = IF TooCloseToEdge(x, Halfwidth(pp_halfwidth), NPts)
                            THEN AfterPeak(Tail(pp_peaks)) ELSE "iter"
    /\ UNCHANGED <<pp_halfwidth, pp_zero, pp_given, final_peaks, notPp>>

\* One pass of "for i in range(50)".  sum2zero: the integral sum2 is 0;
\* dx = sum1 / abs(sum2) in whole pixels, so that abs(dx) < 0.001 is dx = 0.
PinpointIterate(sum2zero, dx) ==
    /\ pp_pc = "iter"
    /\ LET hw == Halfwidth(pp_halfwidth)
           moved == xc + ClampStep(dx)
           adx == Abs(dx)
           leave == \/ sum2zero
                    \/ TooCloseToEdge(moved, hw, NPts)
                    \/ adx = 0
                    \/ adx > dxlast /\ dxcheck + 1 > 3
                    \/ pp_i + 1 = MaxCentroidIters
           found == ~sum2zero /\ ~TooCloseToEdge(moved, hw, NPts) /\ adx = 0
       IN  /\ xc' = IF sum2zero THEN xc
                    ELSE IF TooCloseToEdge(moved, hw, NPts) \/ adx = 0 THEN moved
                    ELSE IF adx > dxlast THEN moved
                    ELSE IF adx >= dxlast THEN moved - ClampStep(dx) \div 2
                    ELSE moved
           /\ dxcheck' = IF sum2zero \/ TooCloseToEdge(moved, hw, NPts) \/ adx = 0
                         THEN dxcheck
                         ELSE IF adx > dxlast THEN dxcheck + 1 ELSE 0
           /\ dxlast' = IF sum2zero \/ TooCloseToEdge(moved, hw, NPts) \/ adx = 0
                           \/ adx >= dxlast
                        THEN dxlast ELSE adx
           /\ pp_i' = pp_i + 1
           /\ final_peaks' = IF found THEN Append(final_peaks, moved)
                             ELSE final_peaks
           /\ pp_pc' = IF leave THEN AfterPeak(pp_peaks) ELSE "iter"
    /\ UNCHANGED <<pp_halfwidth, pp_zero, pp_given, pp_peaks, notPp>>

NextPinpoint ==
    \/ PinpointEnter
    \/ \E k \in 0..2 : PinpointSnap(k)
    \/ \E sum2zero \in BOOLEAN, dx \in DxArgs : PinpointIterate(sum2zero, dx)

-----------------------------------------------------------------------------
(* find_peaks, from the ridge lines on *)

\* len(data), and the most ridge lines that pass the ridge filter
FpLen == 11
MaxRidges == 3
\* widths holds one width: it is max_width and the median of widths
FpWidth == 1
\* how far, in pixels, the centroid ends from the pixel a peak starts at
PinReach == 1
\* min_snr, as by default
min_snr == 1
\* halfwidth of pinpoint_peaks, as by default
DefaultHalfwidth == 4

\* snr: min_snr + 1 everywhere, but for one pixel at min_snr exactly and one
\* pixel more than three times brighter than the others
DimAt == {-1, 4}
BrightAt == {-1, 5}
SnrProfiles ==
    {[x \in 0..(FpLen - 1) |->
         IF x = d THEN min_snr
         ELSE IF x = b THEN 3 * (min_snr + 1) + 1 ELSE min_snr + 1] :
     d \in DimAt, b \in BrightAt}
\* mask: no pixel, or pixel 1
MaskSets == {{}, {1}}
\* min_sep in half pixels: -1, 1 and 2 pixels
MinSeps == {-2, 2, 4}

Range(s) == {s[k] : k \in 1..Len(s)}

RECURSIVE SortedSeq(_)
\* sorted(S) for a set of numbers
SortedSeq(S) ==
    IF S = {} THEN <<>>
    ELSE LET lo == CHOOSE x \in S : \A y \in S : x <= y
         IN  <<lo>> \o SortedSeq(S \ {lo})

\* peaks = sorted([x[1][0] for x in filtered]): up to MaxRidges pixels
RidgeLists ==
    {SortedSeq(S) : S \in {R \in SUBSET (0..(FpLen - 1)) :
                             Cardinality(R) <= MaxRidges}}

RECURSIVE SumSeq(_)
SumSeq(s) == IF s = <<>> THEN 0 ELSE Head(s) + SumSeq(Tail(s))

\* a <= b for two (location, snr) tuples: by the snr alone (key=lambda x:
\* x[1]), or as Python compares tuples
NotAbove(a, b, key) ==
    IF key = "snr" THEN a[2] <= b[2]
    ELSE a[1] < b[1] \/ (a[1] = b[1] /\ a[2] <= b[2])

RECURSIVE InsertSorted(_, _, _)
\* x put into the sorted list s behind every element that is not above it,
\* which is where a stable sort leaves it
InsertSorted(s, x, key) ==
    IF s = <<>> THEN <<x>>
    ELSE IF NotAbove(s[Len(s)], x, key) THEN Append(s, x)
    ELSE Append(InsertSorted(SubSeq(s, 1, Len(s) - 1), x, key), s[Len(s)])

RECURSIVE SortBy(_, _)
\* list.sort and sorted, which are stable
SortBy(s, key) ==
    IF s = <<>> THEN <<>>
    ELSE InsertSorted(SortBy(SubSeq(s, 1, Len(s) - 1), key), s[Len(s)], key)

\* edge = 2.35482 * max_width, in units of 0.00001 pixel
Edge == 235482 * FpWidth

\* peaks = [x for x in peaks if snr[x] > min_snr]
SnrFilter(pk) == SelectSeq(pk, LAMBDA x : snr[x] > min_snr)

RECURSIVE RunEnd(_, _)
\* while j < len(peaks) and (peaks[j] - peaks[j - 1] <= 1): j += 1
\* (j counts from 0 as in the code)
RunEnd(pk, j) ==
    IF j < Len(pk) /\ pk[j + 1] - pk[j] <= 1 THEN RunEnd(pk, j + 1) ELSE j

RECURSIVE RemoveAdjacent(_, _, _)
\* The loop "while i < len(peaks)" from i on, new_peaks being acc so far.
\* The result is in half pixels; the mean of a run of adjacent pixels is
\* the mean of its first and last.
RemoveAdjacent(pk, i, acc) ==
    IF i >= Len(pk) THEN acc
    ELSE LET j == RunEnd(pk, i + 1)
             run == SubSeq(pk, i + 1, j)
             mean == (2 * SumSeq(run)) \div Len(run)
             acc1 == Append(acc, mean)
         IN  RemoveAdjacent(pk, j, IF j = Len(pk) - 1
                                   THEN Append(acc1, 2 * pk[j + 1])
                                   ELSE acc1)

\* peaks[np.logical_and(peaks > edge, peaks < len(data) - 1 - edge)]
EdgeFilter(pk) ==
    SelectSeq(pk, LAMBDA x : /\ 50000 * x > Edge
                             /\ 50000 * x < 100000 * (FpLen - 1) - Edge)

\* mask[int(x-edge):int(x+edge+1)]
MaskWindow(x) ==
    PySlice(TruncDiv(50000 * x - Edge, 100000),
            Some(TruncDiv(50000 * x + Edge + 100000, 100000)), FpLen)
\* peaks = [x for x in peaks if np.sum(mask[...]) == 0]
MaskFilter(pk) == SelectSeq(pk, LAMBDA x : MaskWindow(x) \cap fp_mask = {})

\* What pinpoint_peaks makes of one peak: nothing (-1), or a position that
\* passes its edge test, here on a whole pixel within PinReach pixels of
\* the pixel the peak starts at
PinpointOutcomes(peak, hw, npts) ==
    {-1} \cup {x \in 0..(2 * npts) :
                 /\ x % 2 = 0
                 /\ ~TooCloseToEdge(x, Halfwidth(hw), npts)
                 /\ Abs(x - 2 * StartPixel(peak)) <= 2 * PinReach}

RECURSIVE PinpointChoices(_, _, _)
\* pinpoint_peaks is a function of the peak: equal peaks end alike
PinpointChoices(S, hw, npts) ==
    IF S = {} THEN {<<>>}
    ELSE LET p == CHOOSE x \in S : TRUE
         IN  {(p :> o) @@ g : o \in PinpointOutcomes(p, hw, npts),
                              g \in PinpointChoices(S \ {p}, hw, npts)}

\* the lists pinpoint_peaks(data, mask, pk, halfwidth=hw) can return
PinpointPeaks(pk, hw, npts) ==
    {SelectSeq([k \in 1..Len(pk) |-> f[pk[k]]], LAMBDA x : x # -1) :
       f \in PinpointChoices(Range(pk), hw, npts)}

\* np.argmax raises ValueError on an empty window
PinpointRaises(pk, npts) ==
    \E k \in 1..Len(pk) : SnapWindow(StartPixel(pk[k]), npts) = {}

\* the test of the first pair alone
FirstSeparated(pk, sep) == Len(pk) < 2 \/ pk[2] - pk[1] >= sep
\* all(diffs >= min_sep)
AllSeparated(pk, sep) == \A k \in 1..(Len(pk) - 1) : pk[k + 1] - pk[k] >= sep

\* the pair of the smallest gap, the first of them
ClosestPair(pk, sep) ==
    CHOOSE k \in 1..(Len(pk) - 1) :
        /\ pk[k + 1] - pk[k] < sep
        /\ \A m \in 1..(Len(pk) - 1) :
               \/ pk[k + 1] - pk[k] < pk[m + 1] - pk[m]
               \/ pk[k + 1] - pk[k] = pk[m + 1] - pk[m] /\ k <= m
\* np.argmax(diffs < min_sep), counted from 1
FirstClose(pk, sep) ==
    CHOOSE k \in 1..(Len(pk) - 1) :
        /\ pk[k + 1] - pk[k] < sep
        /\ \A m \in 1..(k - 1) : pk[m + 1] - pk[m] >= sep

\* peaks[i] left in the list
KeepAt(pk, i) == pk
\* del peaks[i]
DelAt(pk, i) == SubSeq(pk, 1, i - 1) \o SubSeq(pk, i + 1, Len(pk))

\* final_peaks and zip(final_peaks, peak_snrs)
FinalFilter(pk) == SelectSeq(pk, LAMBDA p : snr[StartPixel(p)] > min_snr)
WithSnr(pk) == [k \in 1..Len(pk) |-> <<pk[k], snr[StartPixel(pk[k])]>>]

RECURSIVE DropBrightAtThree(_)
\* the loop dropping the brightest already at three times the 4th-brightest
DropBrightAtThree(pk) ==
    IF Len(pk) > 3 /\ pk[Len(pk)][2] >= 3 * pk[Len(pk) - 3][2]
    THEN DropBrightAtThree(SubSeq(pk, 1, Len(pk) - 1))
    ELSE pk

RECURSIVE DropBright(_)
\* while len(peaks) > diff and (peaks[-1][1] / peaks[-(diff + 1)][1] > 3)
\* (every snr here is above min_snr, so positive)
DropBright(pk) ==
    IF Len(pk) > 3 /\ pk[Len(pk)][2] > 3 * pk[Len(pk) - 3][2]
    THEN DropBright(SubSeq(pk, 1, Len(pk) - 1))
    ELSE pk

\* reject_bad_peaks: peaks.sort(key=lambda x: x[1]), then the while loop
RejectBadPeaks(pk) == DropBright(SortBy(pk, "snr"))

\* sorted(good_peaks)
SortedPeaks(pk) == SortBy(pk, "tuple")
\* the list as find_peaks hands it on, which must be sorted by location
ReturnOrder(pk) == SortedPeaks(pk)

\* np.array(...).T: two rows, or no row at all for an empty list
Transpose(pk) ==
    IF pk = <<>> THEN <<>>
    ELSE <<[k \in 1..Len(pk) |-> pk[k][1]], [k \in 1..Len(pk) |-> pk[k][2]]>>
\* T.size
Size(t) == SumSeq([k \in 1..Len(t) |-> Len(t[k])])
\* the array left as np.array(...).T made it
EmptyFixOmitted(t) == t
\* if not T.size: T = np.array([[],[]])
EmptyFix(t) == IF Size(t) = 0 THEN << <<>>, <<>> >> ELSE t

FindPeaksInit ==
    /\ fp_pc = "ridge"
    /\ peaks = <<>>
    /\ snr \in SnrProfiles
    /\ fp_mask \in MaskSets
    /\ min_sep \in MinSeps
    /\ reject_bad \in BOOLEAN
    /\ fp_T = None
    /\ fp_sizes = <<>>
    /\ fp_iters = 0

\* a stage that makes pk of peaks and hands on to the stage next
Stage(pk, next) ==
    /\ peaks' = pk
    /\ fp_sizes' = Append(fp_sizes, Len(pk))
    /\ fp_pc' = next
    /\ UNCHANGED <<snr, fp_mask, min_sep, reject_bad, fp_T, fp_iters, notFp>>

FindRidges(ridges) == fp_pc = "ridge" /\ Stage(ridges, "snr")
FilterSnr == fp_pc = "snr" /\ Stage(SnrFilter(peaks), "adjacent")
MergeAdjacent ==
    fp_pc = "adjacent" /\ Stage(RemoveAdjacent(peaks, 0, <<>>), "edge")
FilterEdge == fp_pc = "edge" /\ Stage(EdgeFilter(peaks), "mask")
FilterMask == fp_pc = "mask" /\ Stage(MaskFilter(peaks), "pinpoint")

FpRaise ==
    /\ fp_pc' = "raised"
    /\ UNCHANGED <<peaks, snr, fp_mask, min_sep, reject_bad, fp_T, fp_sizes,
                   fp_iters, notFp>>

\* peaks = pinpoint_peaks(pinpoint_data, mask, peaks, halfwidth=...)
Pinpoint(zero) ==
    /\ fp_pc = "pinpoint"
    /\ IF zero \/ peaks = <<>> THEN Stage(<<>>, "min_sep")
       ELSE IF PinpointRaises(peaks, FpLen) THEN FpRaise
       ELSE \E pk \in PinpointPeaks(peaks, FpWidth, FpLen) :
                Stage(pk, "min_sep")

\* one pass of "while True": the break, or one pair replaced by the mean of
\* what pinpoint_peaks makes of it
MinSepStep ==
    /\ fp_pc = "min_sep"
    /\ IF AllSeparated(peaks, min_sep) THEN Stage(peaks, "final")
       ELSE LET i == FirstClose(peaks, min_sep)
                pair == SubSeq(peaks, i, i + 1)
            IN  IF PinpointRaises(pair, FpLen) THEN FpRaise
                ELSE \E new \in PinpointPeaks(pair, DefaultHalfwidth, FpLen) :
                       /\ peaks' =
                            IF new # <<>>
                            THEN [DelAt(peaks, i + 1) EXCEPT
                                    ![i] = SumSeq(new) \div Len(new)]
                            ELSE DelAt(DelAt(peaks, i + 1), i)
                       /\ fp_iters' = fp_iters + 1
                       /\ UNCHANGED <<fp_pc, snr, fp_mask, min_sep, reject_bad,
                                      fp_T, fp_sizes, notFp>>

FilterFinal == fp_pc = "final" /\ Stage(FinalFilter(peaks), "return")

\* bad-peak rejection, the sort and the array returned
Return ==
    /\ fp_pc = "return"
    /\ LET good == IF reject_bad THEN RejectBadPeaks(WithSnr(peaks))
                   ELSE WithSnr(peaks)
       IN  /\ fp_T' = EmptyFix(Transpose(ReturnOrder(good)))
           /\ fp_sizes' = Append(fp_sizes, Len(good))
    /\ fp_pc' = "done"
    /\ UNCHANGED <<peaks, snr, fp_mask, min_sep, reject_bad, fp_iters, notFp>>

NextFindPeaks ==
    \/ \E ridges \in RidgeLists : FindRidges(ridges)
    \/ FilterSnr
    \/ MergeAdjacent
    \/ FilterEdge
    \/ FilterMask
    \/ \E zero \in BOOLEAN : Pinpoint(zero)
    \/ MinSepStep
    \/ FilterFinal
    \/ Return

-----------------------------------------------------------------------------
(* trace_lines, from the allocation of coord_lists on *)

\* ext_data.shape: rows along the tracing axis of an image with any content
\* (TrRows) and of an image with a straight ridge (LongRows), and columns
TrRows == 5
LongRows == 9
TrWidth == 6
\* nsum, abs(step) and max_missed run up to these
MaxNsum == 4
MaxStep == 2
MaxMissed == 1
\* max_shift, in half pixels per row
MaxShift == 1
\* cwidth, as by default
cwidth == 5
\* halfwidth = cwidth // 2
TraceHalfwidth == cwidth \div 2

\* initial_peaks (half pixels): none, one, or two
InitialLists == {<<>>, <<6>>, <<4, 8>>}

\* The arguments and the image.  straight: the image holds noiseless straight
\* ridges at the initial peaks, found at every step where they were
\* step, any whole number of rows but 0
Steps == ((-MaxStep)..MaxStep) \ {0}

TraceInputs ==
    [start : 0..TrRows, nsum : 1..MaxNsum, step : Steps,
     max_missed : 0..MaxMissed, rows : {TrRows}, initial : InitialLists,
     straight : {FALSE}]
    \cup
    [start : 0..LongRows, nsum : 1..MaxNsum, step : 1..MaxStep,
     max_missed : 0..MaxMissed, rows : {LongRows}, initial : InitialLists,
     straight : {TRUE}]

Features == 1..Len(tr_in.initial)

\* ypos < 0.5 * nsum or ypos > ext_data.shape[0] - 0.5 * nsum, y in half rows
OutOfImage(y) == y < 0 \/ y > 2 * tr_in.rows
OutOfBounds(y) == y < tr_in.nsum \/ y > 2 * tr_in.rows - tr_in.nsum

\* steps_missed = int(abs((ypos - last_row) / step)) - 1
StepsMissed(y, last_row) == (Abs(y - last_row) \div (2 * Abs(step))) - 1

\* a tolerance one step wider
WiderTolerance(j) == MaxShift * (j + 2) * Abs(step)
\* tolerance = max_shift * (j + 1) * abs(step), in half pixels
Tolerance(j) == MaxShift * (j + 1) * Abs(step)

\* what pinpoint_peaks can make of a peak in one collapsed profile
Candidates(old_peak) ==
    IF tr_in.straight THEN {old_peak}
    ELSE PinpointOutcomes(old_peak, TraceHalfwidth, TrWidth)

\* what pinpoint_peaks(data[0], mask[0], last_peaks, ...) can return
FreshPeaks(last_peaks) ==
    IF tr_in.straight THEN {last_peaks}
    ELSE PinpointPeaks(last_peaks, TraceHalfwidth, TrWidth)

\* last_peaks = [c[1] for c in last_coords if not np.isnan(c[1])]
LastPeaks ==
    LET alive == SelectSeq([i \in Features |-> last_coords[i][2]],
                           LAMBDA c : c # None)
    IN  [k \in 1..Len(alive) |-> alive[k][1]]

\* peaks[np.argmin(abs(np.array(peaks) - old_peak))], -1 standing for inf
Nearest(pk, old_peak) ==
    IF pk = <<>> THEN -1
    ELSE pk[CHOOSE k \in 1..Len(pk) :
               /\ \A m \in 1..Len(pk) :
                      Abs(pk[k] - old_peak) <= Abs(pk[m] - old_peak)
               /\ \A m \in 1..(k - 1) :
                      Abs(pk[m] - old_peak) > Abs(pk[k] - old_peak)]

RECURSIVE Search(_, _, _, _)
\* "for j in range(min(steps_missed, lookback) + 1)" from j on, last being
\* the last j: <<j, new_peak>> where the loop breaks, <<-1, -1>> where it
\* runs out.  The peak of the next profile is -1 for "No peak there".
Search(j, new_peak, old_peak, last) ==
    IF new_peak # -1 /\ Abs(new_peak - old_peak) <= Tolerance(j)
    THEN {<<j, new_peak>>}
    ELSE IF j < last
    THEN UNION {Search(j + 1, p, old_peak, last) : p \in Candidates(old_peak)}
    ELSE {<<-1, -1>>}

\* a lookback that is set to 0 at every step
LookbackReset(lb, max_missed) == 0
\* a lookback that grows without a cap
LookbackUncapped(lb, max_missed) == lb + 1
\* lookback = min(lookback + 1, max_missed), at the head of every step
Lookback(lb, max_missed) == Min(lb + 1, max_missed)

\* a lookback that a dead collapse leaves as the step raised it
LookbackKept(lb) == lb
\* "else: lookback = 0", where lb is lookback as the step raised it
LookbackDead(lb) == 0

\* the ends of the search for feature i at row y, <<-2, -2>> for a lost one;
\* lookback is read after the step has raised it
FeatureResults(i, y, pk) ==
    LET last_row == last_coords[i][1]
        old == last_coords[i][2]
    IN  IF old = None THEN {<<-2, -2>>}
        ELSE Search(0, Nearest(pk, old[1]), old[1],
                    Min(StepsMissed(y, last_row),
                        Lookback(lookback, tr_in.max_missed)))

RECURSIVE StepResults(_, _, _)
\* one end of the search for each feature from i on
StepResults(i, y, pk) ==
    IF i > Len(tr_in.initial) THEN {<<>>}
    ELSE {<<r>> \o rest : r \in FeatureResults(i, y, pk),
                          rest \in StepResults(i + 1, y, pk)}

\* new_coord[1] < halfwidth or new_coord[1] > ext_data.shape[1] - 0.5 * halfwidth
TooClose(p) == p < 2 * TraceHalfwidth \/ p > 2 * TrWidth - TraceHalfwidth

\* a coordinate is appended for a feature whose search ended with r
Appends(r) == r[1] >= 0 /\ ~TooClose(r[2])

\* last_coords[i] after the search for feature i at row y ended with r
LastCoord(i, y, r) ==
    IF r[1] = -2 THEN last_coords[i]
    ELSE IF r[1] = -1
    THEN IF StepsMissed(y, last_coords[i][1]) > tr_in.max_missed
         THEN <<y, None>> ELSE last_coords[i]
    ELSE IF TooClose(r[2]) THEN <<last_coords[i][1], None>>
    ELSE <<y - r[1] * step, Some(r[2])>>

TraceInit ==
    /\ tr_in \in TraceInputs
    /\ tr_pc = "begin"
    /\ step = tr_in.step
    /\ ypos = 0
    /\ lookback = 0
    /\ last_coords = <<>>
    /\ coord_lists = [i \in 1..Len(tr_in.initial) |-> <<>>]
    /\ tr_dirs = <<1, -1>>
    /\ tr_peaks = None
    /\ missed = [i \in 1..Len(tr_in.initial) |-> 0]

\* a feature lost in the direction before stays lost
LostStaysLost(i) ==
    IF last_coords # <<>> /\ last_coords[i][2] = None THEN last_coords[i]
    ELSE <<2 * tr_in.start, Some(tr_in.initial[i])>>
\* [ypos, peak] of last_coords = [[ypos, peak] for peak in initial_peaks]
StartCoord(i) == <<2 * tr_in.start, Some(tr_in.initial[i])>>

\* the head of "for direction in (1, -1)"
BeginDirection ==
    /\ tr_pc = "begin"
    /\ ypos' = 2 * tr_in.start
    /\ last_coords' = [i \in Features |-> StartCoord(i)]
    /\ lookback' = 0
    /\ missed' = [i \in Features |-> 0]
    /\ tr_pc' = "loop"
    /\ tr_peaks' = None
    /\ UNCHANGED <<step, coord_lists, tr_dirs, tr_in, notTr>>

\* One pass of "while True".  live: any(mask[0] == 0) and not
\* all(np.isinf(var[0])).
TraceStep(live) ==
    /\ tr_pc = "loop"
    /\ tr_in.straight => live
    /\ LET y == ypos + 2 * step
           lb == Lookback(lookback, tr_in.max_missed)
       IN  /\ ypos' = y
           /\ IF OutOfBounds(y)
              THEN /\ lookback' = lb
                   /\ tr_pc' = "end"
                   /\ tr_peaks' = None
                   /\ UNCHANGED <<last_coords, coord_lists, missed>>
              ELSE IF ~live
              THEN /\ lookback' = LookbackDead(lb)
                   /\ tr_peaks' = None
                   /\ tr_pc' = IF \A i \in Features : last_coords[i][2] = None
                               THEN "end" ELSE "loop"
                   /\ UNCHANGED <<last_coords, coord_lists, missed>>
              ELSE \E pk \in FreshPeaks(LastPeaks) :
                   \E res \in StepResults(1, y, pk) :
                       /\ lookback' = lb
                       /\ tr_peaks' = Some(pk)
                       /\ last_coords' =
                            [i \in Features |-> LastCoord(i, y, res[i])]
                       /\ coord_lists' =
                            [i \in Features |->
                               IF Appends(res[i])
                               THEN Append(coord_lists[i],
                                           <<y - res[i][1] * step, res[i][2]>>)
                               ELSE coord_lists[i]]
                       /\ missed' =
                            [i \in Features |->
                               IF Appends(res[i]) THEN 0 ELSE missed[i] + 1]
                       /\ tr_pc' = IF \A i \in Features :
                                          last_coords'[i][2] = None
                                   THEN "end" ELSE "loop"
    /\ UNCHANGED <<step, tr_dirs, tr_in, notTr>>

\* a step that keeps its direction
SameDirection(s) == s
\* step *= -1
Reversed(s) == -s

\* step *= -1, and the next direction or the return
EndDirection ==
    /\ tr_pc = "end"
    /\ step' = Reversed(step)
    /\ tr_dirs' = Tail(tr_dirs)
    /\ tr_pc' = IF Tail(tr_dirs) = <<>> THEN "done" ELSE "begin"
    /\ UNCHANGED <<ypos, lookback, last_coords, coord_lists, tr_in, tr_peaks,
                   missed, notTr>>

NextTrace ==
    \/ BeginDirection
    \/ \E live \in BOOLEAN : TraceStep(live)
    \/ EndDirection

-----------------------------------------------------------------------------
(* trace_lines: the starting positions *)

\* pinpoint_peaks moves a peak by up to MaxRecentre half pixels
MaxRecentre == 3
\* initial_tolerance: None, 0 or 1.0 pixel (half pixels)
Tolerances == {None, Some(0), Some(2)}

RECURSIVE Recentred(_)
\* what pinpoint_peaks(data, mask, initial) may return: each peak is dropped
\* or recentred, those kept in the order given
Recentred(initial) ==
    IF initial = <<>> THEN {<<>>}
    ELSE LET rest == Recentred(Tail(initial))
         IN  rest \cup {<<Head(initial) + d>> \o r :
                           d \in (-MaxRecentre)..MaxRecentre, r \in rest}

StartInputs ==
    UNION {{[initial |-> i, peaks |-> pk, initial_tolerance |-> t] :
               pk \in Recentred(i), t \in Tolerances} : i \in InitialLists}

RECURSIVE Recentre(_, _, _)
\* the loop over initial: the pinpointed peak nearest to each, kept when it
\* is within initial_tolerance
Recentre(initial, pk, tolerance) ==
    IF initial = <<>> THEN <<>>
    ELSE LET new_peak == Nearest(pk, Head(initial))
         IN  (IF Abs(new_peak - Head(initial)) <= tolerance
              THEN <<new_peak>> ELSE <<>>)
             \o Recentre(Tail(initial), pk, tolerance)

StartInit ==
    /\ st_pc = "call"
    /\ st_in \in StartInputs
    /\ initial_peaks = <<>>

\* "Get better peak positions if requested": np.argmin raises ValueError
\* for an empty sequence
StartingPeaks ==
    /\ st_pc = "call"
    /\ IF st_in.initial_tolerance = None
       THEN st_pc' = "returned" /\ initial_peaks' = st_in.initial
       ELSE IF st_in.initial # <<>> /\ st_in.peaks = <<>>
       THEN st_pc' = "raised" /\ UNCHANGED initial_peaks
       ELSE /\ st_pc' = "returned"
            /\ initial_peaks' = Recentre(st_in.initial, st_in.peaks,
                                         st_in.initial_tolerance[1])
    /\ UNCHANGED <<st_in, notSt>>

NextStart == StartingPeaks

-----------------------------------------------------------------------------
(* reject_bad_peaks *)

\* the longest list of peaks, and the largest strength; strengths are above
\* zero, as the SNRs are that find_peaks hands over
MaxRbPeaks == 5
MaxStrength == 4

\* peaks as the caller built it: the k-th peak at pixel k
RejectInputs ==
    UNION {{[k \in 1..n |-> <<2 * k, f[k]>>] : f \in [1..n -> 1..MaxStrength]} :
           n \in 0..MaxRbPeaks}

RejectBadInit ==
    /\ rb_pc = "call"
    /\ rb_in \in RejectInputs
    /\ rb_peaks = rb_in

\* the call: peaks is sorted and shortened in place, and returned
RejectBad ==
    /\ rb_pc = "call"
    /\ rb_peaks' = RejectBadPeaks(rb_peaks)
    /\ rb_pc' = "returned"
    /\ UNCHANGED <<rb_in, notRb>>

NextRejectBad == RejectBad

-----------------------------------------------------------------------------
(* get_limits *)

\* len(data), and the longest list of peaks
GlLen == 3
MaxGlPeaks == 2

\* positions on the half-pixel grid of the data, 0 .. len(data) - 1
GlGrid == 0..(2 * (GlLen - 1))
\* peaks given by the caller: from half a pixel below the data to half a
\* pixel above
GlPeakArgs == (-1)..(2 * (GlLen - 1) + 1)

\* minima, maxima = at.get_spline3_extrema(spline): the extrema at the
\* positions E, in ascending order, minima and maxima taking turns
Extrema(E, first) ==
    LET e == SortedSeq(E)
        odd == SelectSeq([k \in 1..Len(e) |-> IF k % 2 = 1 THEN e[k] ELSE -1],
                         LAMBDA x : x # -1)
        even == SelectSeq([k \in 1..Len(e) |-> IF k % 2 = 0 THEN e[k] ELSE -1],
                          LAMBDA x : x # -1)
    IN  IF first = "minimum" THEN <<odd, even>> ELSE <<even, odd>>

\* method as given: None, a key of functions, or anything else
Methods == {None, Some("peak"), Some("integral"), Some("other")}

LimitsInputs ==
    {[n |-> GlLen, minima |-> x[1], maxima |-> x[2], peaks |-> pk,
      method |-> mt] :
        x \in {Extrema(E, first) : E \in SUBSET GlGrid,
                                   first \in {"minimum", "maximum"}},
        pk \in SeqsUpTo(GlPeakArgs, MaxGlPeaks),
        mt \in Methods}

\* try: functions[method], except KeyError: method = None
EffectiveMethod(method) ==
    IF method \in {Some("peak"), Some("integral")} THEN method ELSE None

\* maxima[np.argmin(abs(maxima - peak))]
TweakedPeak(maxima, peak) == Nearest(maxima, peak)

\* for upper in minima: if upper > peak: break; else: upper = len(data) - 1
UpperLimit(minima, peak, n) ==
    LET above == {k \in 1..Len(minima) : minima[k] > peak}
    IN  IF above = {} THEN 2 * (n - 1)
        ELSE minima[CHOOSE k \in above : \A m \in above : k <= m]

\* for lower in reversed(minima): if lower < peak: break; else: lower = 0
LowerLimit(minima, peak, n) ==
    LET below == {k \in 1..Len(minima) : minima[k] < peak}
    IN  IF below = {} THEN 0
        ELSE minima[CHOOSE k \in below : \A m \in below : k >= m]

\* optimize.bisect(func, limit, peak) where it finds a root: at the limit
\* (threshold 0) or at the peak (threshold 1)
Bisect(limit, peak) == {limit, peak}

\* what one pass of "for peak in peaks" can append
PeakLimits(peak) ==
    LET lower == LowerLimit(gl_in.minima, peak, gl_in.n)
        upper == UpperLimit(gl_in.minima, peak, gl_in.n)
        tweaked_peak == TweakedPeak(gl_in.maxima, peak)
    IN  IF EffectiveMethod(gl_in.method) = None THEN {<<lower, upper>>}
        ELSE {<<Min(limit1, peak), Max(limit2, peak)>> :
                limit1 \in Bisect(lower, tweaked_peak),
                limit2 \in Bisect(upper, tweaked_peak)}

RECURSIVE AllLimits(_)
\* the lists "for peak in peaks" can build from pk
AllLimits(pk) ==
    IF pk = <<>> THEN {<<>>}
    ELSE {<<l>> \o rest : l \in PeakLimits(Head(pk)), rest \in AllLimits(Tail(pk))}

LimitsInit ==
    /\ gl_pc = "call"
    /\ gl_in \in LimitsInputs
    /\ all_limits = <<>>

\* The call.  np.argmin raises ValueError for an empty maxima, at the first
\* peak.
GetLimits ==
    /\ gl_pc = "call"
    /\ IF gl_in.peaks # <<>> /\ gl_in.maxima = <<>>
       THEN gl_pc' = "raised" /\ UNCHANGED all_limits
       ELSE gl_pc' = "returned" /\ all_limits' \in AllLimits(gl_in.peaks)
    /\ UNCHANGED <<gl_in, notGl>>

NextLimits == GetLimits

-----------------------------------------------------------------------------
(* Idle values: a component that a specification does not run *)

ApertureIdle ==
    /\ aper_lower = 0 /\ aper_upper = 0 /\ last_extraction = None
    /\ center_pixels = FALSE /\ ap_call = Call("idle", 0, "none", {}, None)
RickerIdle ==
    /\ cwt_width = 1 /\ cwt_len = 1 /\ cwt_N = None /\ cwt_out = "none"

OptimalIdle ==
    /\ opt_pc = "idle" /\ iter = 0 /\ max_iters = None /\ mask = {}
    /\ ext_mask = None /\ unmask = {} /\ last_unmask = {}
PinpointIdle ==
    /\ pp_pc = "idle" /\ pp_halfwidth = 0 /\ pp_zero = FALSE /\ pp_given = 0
    /\ pp_peaks = <<>> /\ final_peaks = <<>> /\ xc = 0 /\ dxlast = 0
    /\ dxcheck = 0 /\ pp_i = 0

FindPeaksIdle ==
    /\ fp_pc = "idle" /\ peaks = <<>> /\ snr = <<>> /\ fp_mask = {}
    /\ min_sep = 0 /\ reject_bad = FALSE /\ fp_T = None /\ fp_sizes = <<>>
    /\ fp_iters = 0
TraceIdle ==
    /\ tr_pc = "idle" /\ step = 1 /\ ypos = 0 /\ lookback = 0
    /\ last_coords = <<>> /\ coord_lists = <<>> /\ tr_dirs = <<>>
    /\ tr_in = <<>> /\ tr_peaks = <<>> /\ missed = <<>>

RejectBadIdle == rb_pc = "idle" /\ rb_in = <<>> /\ rb_peaks = <<>>
LimitsIdle == gl_pc = "idle" /\ gl_in = <<>> /\ all_limits = <<>>
StartIdle == st_pc = "idle" /\ st_in = <<>> /\ initial_peaks = <<>>
\* the functions that rest together
OthersIdle == RejectBadIdle /\ LimitsIdle /\ StartIdle

InitAperture ==
    /\ ApertureInit /\ RickerIdle /\ OptimalIdle /\ PinpointIdle
    /\ FindPeaksIdle /\ TraceIdle /\ OthersIdle
InitRicker ==
    /\ RickerInit /\ ApertureIdle /\ OptimalIdle /\ PinpointIdle
    /\ FindPeaksIdle /\ TraceIdle /\ OthersIdle
InitOptimal ==
    /\ OptimalInit /\ ApertureIdle /\ RickerIdle /\ PinpointIdle
    /\ FindPeaksIdle /\ TraceIdle /\ OthersIdle
InitPinpoint ==
    /\ PinpointInit /\ ApertureIdle /\ RickerIdle /\ OptimalIdle
    /\ FindPeaksIdle /\ TraceIdle /\ OthersIdle
InitFindPeaks ==
    /\ FindPeaksInit /\ ApertureIdle /\ RickerIdle /\ OptimalIdle
    /\ PinpointIdle /\ TraceIdle /\ OthersIdle
\* find_peaks called with no pixel masked and reject_bad=False, neither of
\* which the min_sep loop reads
InitFindPeaksLoop == InitFindPeaks /\ fp_mask = {} /\ reject_bad = FALSE
InitTrace ==
    /\ TraceInit /\ ApertureIdle /\ RickerIdle /\ OptimalIdle
    /\ PinpointIdle /\ FindPeaksIdle /\ OthersIdle
InitRejectBad ==
    /\ RejectBadInit /\ ApertureIdle /\ RickerIdle /\ OptimalIdle
    /\ PinpointIdle /\ FindPeaksIdle /\ TraceIdle /\ LimitsIdle /\ StartIdle
InitLimits ==
    /\ LimitsInit /\ ApertureIdle /\ RickerIdle /\ OptimalIdle
    /\ PinpointIdle /\ FindPeaksIdle /\ TraceIdle /\ RejectBadIdle
    /\ StartIdle
InitStart ==
    /\ StartInit /\ ApertureIdle /\ RickerIdle /\ OptimalIdle
    /\ PinpointIdle /\ FindPeaksIdle /\ TraceIdle /\ RejectBadIdle
    /\ LimitsIdle

SpecAperture == InitAperture /\ [][NextAperture]_vars
SpecRicker == InitRicker /\ [][NextRicker]_vars
SpecOptimal == InitOptimal /\ [][NextOptimal]_vars
SpecPinpoint == InitPinpoint /\ [][NextPinpoint]_vars
SpecFindPeaks == InitFindPeaks /\ [][NextFindPeaks]_vars
SpecTrace == InitTrace /\ [][NextTrace]_vars
SpecRejectBad == InitRejectBad /\ [][NextRejectBad]_vars
SpecLimits == InitLimits /\ [][NextLimits]_vars
SpecStart == InitStart /\ [][NextStart]_vars
\* trace_lines is sequential code: while it has a next statement it runs it
FairTrace == SpecTrace /\ WF_vars(NextTrace)
\* and so is the loop of optimal_extraction
FairOptimal == SpecOptimal /\ WF_vars(NextOptimal)
\* and so is the min_sep loop of find_peaks: a pass that can run does run
FairFindPeaks ==
    InitFindPeaksLoop /\ [][NextFindPeaks]_vars /\ WF_vars(MinSepStep)

-----------------------------------------------------------------------------
(* Claims about the Aperture class *)

BoundsStraddleZero == aper_lower <= 0 /\ 0 <= aper_upper

\* C5: setting width to w > 0 makes the aperture symmetric (aper_upper = w/2,
\* aper_lower = -w/2) and reading width afterwards returns w; setting a
\* width <= 0 raises ValueError and leaves aper_lower and aper_upper as they
\* were.
C5_WidthSetter ==
    [][ap_call'.op = "set_width" =>
          IF ap_call'.value > 0
          THEN /\ ap_call'.raised = "none"
               /\ 2 * aper_upper' = ap_call'.value
               /\ 2 * aper_lower' = -ap_call'.value
               /\ Width' = ap_call'.value
          ELSE /\ ap_call'.raised = "ValueError"
               /\ UNCHANGED <<aper_lower, aper_upper>>]_vars

\* C5 witness: an aperture built from explicit, asymmetric offsets has had a
\* width of 2 pixels assigned and reads it back
C5_Witness ==
    /\ ap_call.op = "set_width" /\ ap_call.value = 4
    /\ aper_upper = 2 /\ aper_lower = -2 /\ Width = 4

\* C6 as stated: in every reachable state of an Aperture,
\* aper_lower <= 0 <= aper_upper.
C6_Original == BoundsStraddleZero

\* C6 amended: an Aperture constructed from a width, or whose width has been
\* assigned successfully, has aper_lower <= 0 <= aper_upper, and no later
\* width assignment, aperture_mask call or extract call breaks that; an
\* Aperture constructed from explicit offsets holds them as given.
C6_Amended ==
    /\ (ap_call.op = "init_width" => BoundsStraddleZero)
    /\ [][/\ (BoundsStraddleZero => BoundsStraddleZero')
          /\ (ap_call'.op = "set_width" /\ ap_call'.raised = "none"
                => BoundsStraddleZero')
          /\ (ap_call'.op \in {"aperture_mask", "extract"}
                => UNCHANGED <<aper_lower, aper_upper>>)]_vars

\* C6 witness: an extraction with limits of its own has run on an aperture
\* whose bounds straddle zero, and the bounds are still in place
C6_Witness ==
    /\ ap_call.op = "extract" /\ ap_call.raised = "none"
    /\ aper_lower < 0 /\ 0 < aper_upper
    /\ last_extraction # <<aper_lower, aper_upper>>

\* the pixel that holds position x (half pixels): pixel k holds
\* k - 0.5 <= x < k + 0.5
PixelOf(x) == (x + 1) \div 2

\* C13: for every dispersion pixel i, aperture_mask marks spatial pixel k if
\* and only if k is a pixel of the image within the inclusive range of
\* pixels from the one holding center(i) + lower to the one holding
\* center(i) + upper (the limits as grown); nothing is marked at i when the
\* aperture lies wholly below pixel 0 or wholly above the last pixel.
C13_Original ==
    ap_call.op = "aperture_mask" =>
        LET lower == ap_call.args[1]
            upper == ap_call.args[2]
            model == ap_call.args[3]
        IN  \A i \in 0..(NPix - 1) :
                ap_call.ret[i] =
                    {k \in 0..(SlitLength - 1) :
                        /\ PixelOf(model[i] + lower) <= k
                        /\ k <= PixelOf(model[i] + upper)}

\* C14: extract normalizes its limits: when the effective lower limit is
\* greater than the upper one the two are swapped (and a warning logged);
\* limits on the wrong side of zero are warned about and raise nothing, the
\* only exceptions being the unknown method and a failure of the extraction
\* function; after a call that returns, _last_extraction is the pair
\* (lower, upper) that was used, with lower <= upper.
C14_ExtractNormalizes ==
    ap_call.op = "extract" =>
        LET given_lower == ap_call.args[1]
            given_upper == ap_call.args[2]
            method == ap_call.args[3]
            swap  == given_lower > given_upper
            lower == IF swap THEN given_upper ELSE given_lower
            upper == IF swap THEN given_lower ELSE given_upper
        IN  /\ lower <= upper
            /\ swap <=> "lower limit is greater than upper limit"
                            \in ap_call.warnings
            /\ lower > 0 <=> "lower limit is greater than zero"
                            \in ap_call.warnings
            /\ upper < 0 <=> "upper limit is less than zero"
                            \in ap_call.warnings
            /\ ap_call.raised \in {"none", "AttributeError", "Exception"}
            /\ ap_call.raised = "AttributeError"
                  <=> method \notin {"standard", "optimal"}
            /\ ap_call.raised = "none" => last_extraction = <<lower, upper>>

\* extract(aper_lower=0.5, aper_upper=-0.5) has returned
C14_Witness ==
    /\ ap_call.op = "extract" /\ ap_call.raised = "none"
    /\ ap_call.args[1] = 1 /\ ap_call.args[2] = -1
    /\ last_extraction = <<-1, 1>>

\* C15 as stated: once a call of extract has ended, by returning or by
\* raising, the Aperture holds no _center_pixels.
C15_Original == ap_call.op = "extract" => ~center_pixels

-----------------------------------------------------------------------------
(* Claims about optimal_extraction *)

\* C4: when max_iters is set the loop executes at most max_iters iterations;
\* it stops earlier at the first iteration that leaves the set of unmasked
\* pixels as it was, and nothing else ends it.
C4_Original ==
    /\ (max_iters # None => iter <= max_iters[1])
    /\ (opt_pc = "done" =>
          \/ unmask = last_unmask
          \/ max_iters # None /\ iter = max_iters[1])
    /\ (opt_pc = "loop" /\ iter > 0 => unmask # last_unmask)

\* C16 as stated: no step of the optimal extraction changes the mask of the
\* image the caller passed; the cosmic-ray flags go to the call's own arrays.
C16_Original == [][ext_mask' = ext_mask]_vars

\* C24: the loop ends, with max_iters or without: no pass clears a bit of the
\* mask, so the unmasked pixels of a pass are among those of the pass
\* before, and the loop makes at most (number of pixels) + 1 passes.
C24_Terminates ==
    /\ [](iter <= OptPixels + 1 /\ unmask \subseteq last_unmask)
    /\ [][mask \subseteq mask' /\ unmask' \subseteq unmask]_vars
    /\ <>(opt_pc = "done")

\* without max_iters, the loop has ended after flagging one pixel in each of
\* OptPixels passes and none in the last
C24_Witness ==
    /\ opt_pc = "done" /\ max_iters = None
    /\ iter = OptPixels + 1 /\ unmask = {}

-----------------------------------------------------------------------------
(* Claims about pinpoint_peaks *)

\* C3: pinpoint_peaks returns no more locations than it was given peaks, and
\* every returned location x has halfwidth <= x <= N - 1 - halfwidth, with
\* halfwidth the effective one (>= 2).
C3_Original ==
    /\ Len(final_peaks) <= pp_given
    /\ \A n \in DOMAIN final_peaks :
          /\ 2 * Halfwidth(pp_halfwidth) <= final_peaks[n]
          /\ final_peaks[n] <= 2 * (NPts - 1 - Halfwidth(pp_halfwidth))

\* C10: pinpoint_peaks never raises, whatever the positions of the peaks it
\* is given.
C10_Original == pp_pc # "raised"

\* C25 as stated: a pass of the centroiding loop that is the third in a row
\* whose step has not shrunk abandons the peak, with no result; a result is
\* appended only by the pass that ends the loop; the loop makes at most 50
\* passes, and each moves the centre by at most 1 pixel.
C25_Original ==
    [][pp_pc = "iter" =>
         /\ dxcheck' >= 3 => pp_pc' # "iter" /\ final_peaks' = final_peaks
         /\ final_peaks' # final_peaks => pp_pc' # "iter"
         /\ pp_i' <= MaxCentroidIters
         /\ Abs(xc' - xc) <= 2]_vars

-----------------------------------------------------------------------------
(* Claims about cwt_ricker *)

\* the largest odd integer <= m
LargestOdd(m) == IF m % 2 = 1 THEN m ELSE m - 1

\* C8: for every width > 0 and data length >= 1 the kernel length is the
\* largest odd integer <= min(10 * width, len(data)), it is positive, and
\* the transform does not fail.
C8_KernelLength ==
    cwt_N # None =>
        /\ cwt_N[1] = LargestOdd(RickerMin(cwt_width, cwt_len))
        /\ cwt_N[1] > 0
        /\ cwt_out = "returned"

-----------------------------------------------------------------------------
(* Claims about find_peaks *)

\* Stage k of find_peaks left no candidate: 1 the ridge filter, 2 the snr
\* filter, 3 the removal of adjacent points, 4 the edge filter, 5 the mask
\* filter, 6 pinpoint_peaks, 7 the min_sep loop, 8 the final snr filter,
\* 9 the rejection of bad peaks
Emptied(k) == Len(fp_sizes) >= k /\ fp_sizes[k] = 0

\* C2: the locations find_peaks returns are sorted in ascending order, any
\* two adjacent ones are at least min_sep apart, and the SNR returned with
\* each is above min_snr.
C2_SortedSeparated ==
    fp_pc = "done" =>
        LET locs == fp_T[1]
            snrs == fp_T[2]
        IN  /\ Len(locs) = Len(snrs)
            /\ \A k \in 1..(Len(locs) - 1) :
                   /\ locs[k] <= locs[k + 1]
                   /\ locs[k + 1] - locs[k] >= min_sep
            /\ \A k \in 1..Len(snrs) : snrs[k] > min_snr

\* find_peaks has returned two peaks or more, min_sep being two pixels, after
\* the min_sep loop merged a pair
C2_Witness ==
    /\ fp_pc = "done"
    /\ Len(fp_T[1]) >= 2
    /\ min_sep = 4
    /\ fp_sizes[7] < fp_sizes[6]

\* C9: when a stage of find_peaks leaves no candidate, find_peaks does not
\* raise, and it returns an array of two rows and no column.
C9_EmptyResult ==
    (\E k \in 1..9 : Emptied(k)) =>
        /\ fp_pc # "raised"
        /\ fp_pc = "done" => fp_T = << <<>>, <<>> >>

\* find_peaks has returned after the min_sep loop found that both peaks of
\* the last pair had vanished
C9_Witness ==
    /\ fp_pc = "done"
    /\ fp_sizes[6] > 0
    /\ Emptied(7)
    /\ fp_T = << <<>>, <<>> >>

\* where the maximal runs of pk start: at the first candidate and after
\* every gap of more than 1 pixel
RunStarts(pk) == {k \in 1..Len(pk) : k = 1 \/ pk[k] - pk[k - 1] > 1}

\* the mean, in half pixels, of the run of pk that starts at k
RunMean(pk, k) ==
    LET e == CHOOSE m \in k..Len(pk) :
                 /\ \A n \in (k + 1)..m : n \notin RunStarts(pk)
                 /\ m = Len(pk) \/ m + 1 \in RunStarts(pk)
    IN  (2 * SumSeq(SubSeq(pk, k, e))) \div (e - k + 1)

\* C26 as stated: the merge of adjacent candidates leaves one entry for each
\* maximal run of candidates with gaps of at most 1 pixel, the mean of the
\* run, and no entry twice.
C26_Original ==
    [][(fp_pc = "adjacent" /\ fp_pc' = "edge") =>
          LET starts == SortedSeq(RunStarts(peaks))
          IN  peaks' = [n \in 1..Len(starts) |-> RunMean(peaks, starts[n])]]_vars

\* the pairs of neighbours closer than sep, and the gap of pair k
ClosePairs(pk, sep) == {k \in 1..(Len(pk) - 1) : pk[k + 1] - pk[k] < sep}
Gap(pk, k) == pk[k + 1] - pk[k]

\* what a merging iteration leaves of pk when it works on pair k: the pair
\* replaced by the mean of what re-pinpointing returns, or both dropped
Merged(pk, k) ==
    {IF new # <<>>
     THEN SubSeq(pk, 1, k - 1) \o <<SumSeq(new) \div Len(new)>>
              \o SubSeq(pk, k + 2, Len(pk))
     ELSE SubSeq(pk, 1, k - 1) \o SubSeq(pk, k + 2, Len(pk)) :
       new \in PinpointPeaks(SubSeq(pk, k, k + 1), DefaultHalfwidth, FpLen)}

\* an iteration of the min_sep loop that neither exits nor raises
MergingIteration == fp_pc = "min_sep" /\ fp_pc' = "min_sep" /\ peaks' # peaks

\* C27 as stated: an iteration of the min_sep loop works on a pair of
\* neighbours that has the smallest gap of all pairs closer than min_sep.
C27_Original ==
    [][MergingIteration =>
          \E k \in ClosePairs(peaks, min_sep) :
              /\ \A m \in ClosePairs(peaks, min_sep) :
                     Gap(peaks, k) <= Gap(peaks, m)
              /\ peaks' \in Merged(peaks, k)]_vars

\* C27: an iteration of the min_sep loop works on the first pair of
\* neighbours closer than min_sep, whatever the gaps of the later pairs; it
\* replaces that pair by the mean of what re-pinpointing the pair returns, or
\* drops both when re-pinpointing returns nothing.
C27_Amended ==
    [][MergingIteration =>
          \E k \in ClosePairs(peaks, min_sep) :
              /\ \A m \in ClosePairs(peaks, min_sep) : k <= m
              /\ peaks' \in Merged(peaks, k)]_vars

\* the min_sep loop has merged a pair into one peak and finds a pair closer
\* than min_sep again
C27_Witness ==
    /\ fp_pc = "min_sep"
    /\ Len(fp_sizes) = 6
    /\ Len(peaks) = fp_sizes[6] - 1
    /\ ClosePairs(peaks, min_sep) # {}

\* C28: the min_sep loop of find_peaks, once entered, is left; a pass that does
\* not leave it works on two peaks or more and removes one or two of them, so
\* that of n peaks after pinpointing at most n - 1 passes merge a pair; with
\* no peak or one peak the loop is left at once, the list as it was.
C28_Terminates ==
    /\ [](Len(fp_sizes) >= 6 =>
              /\ Len(peaks) <= fp_sizes[6]
              /\ fp_iters = 0 \/ fp_iters <= fp_sizes[6] - 1)
    /\ [][/\ MergingIteration =>
                /\ Len(peaks) >= 2
                /\ Len(peaks) - Len(peaks') \in {1, 2}
          /\ (fp_pc = "min_sep" /\ Len(peaks) <= 1) =>
                fp_pc' = "final" /\ peaks' = peaks]_vars
    /\ (fp_pc = "min_sep") ~> (fp_pc # "min_sep")

\* find_peaks has returned after the min_sep loop took n - 1 passes to merge
\* the n >= 3 peaks that pinpointing left
C28_Witness ==
    /\ fp_pc = "done"
    /\ fp_sizes[6] >= 3
    /\ fp_iters = fp_sizes[6] - 1

-----------------------------------------------------------------------------
(* Claims about trace_lines *)

\* C1: within one direction, a feature that was not detected at more than
\* max_missed consecutive steps gets no further coordinate, even if a
\* candidate within tolerance comes back.
C1_Original ==
    [][\A i \in DOMAIN missed :
          missed[i] > tr_in.max_missed => coord_lists'[i] = coord_lists[i]]_vars

\* nsum/2 <= position <= H - nsum/2, y in half rows
InsideBand(y) == tr_in.nsum <= y /\ y <= 2 * tr_in.rows - tr_in.nsum

\* the step positions start + k * s, in half rows
StepPosition(k, s) == 2 * (tr_in.start + k * s)

RECURSIVE StepsInside(_, _)
\* how many step positions from the k-th on, in steps of s, lie inside the
\* band before the first that does not
StepsInside(k, s) ==
    IF InsideBand(StepPosition(k, s)) THEN 1 + StepsInside(k + 1, s) ELSE 0

\* the coordinates at perpendicular position p of the first n step positions
StraightTrack(n, s, p) == [k \in 1..n |-> <<StepPosition(k, s), p>>]

\* C7 as stated: on a straight ridge every feature has, in each direction,
\* a coordinate at its initial position p0 for every step position
\* start + k*step (k = 1, 2, ...) inside the band nsum/2 .. H - nsum/2.
C7_Original ==
    (tr_pc = "done" /\ tr_in.straight) =>
        \A i \in Features, s \in {tr_in.step, -tr_in.step}, k \in 1..LongRows :
            InsideBand(StepPosition(k, s)) =>
                <<StepPosition(k, s), tr_in.initial[i]>> \in Range(coord_lists[i])

\* C7, amended: on a straight ridge the track of every feature is, for the
\* direction of step and then for the opposite one, one coordinate at its
\* initial position p0 for each step position start + k*step (k = 1, 2, ...)
\* that comes before the first one outside the band nsum/2 .. H - nsum/2,
\* and nothing else, whatever max_missed is.
C7_Amended ==
    (tr_pc = "done" /\ tr_in.straight) =>
        \A i \in Features :
            coord_lists[i] =
                StraightTrack(StepsInside(1, tr_in.step), tr_in.step,
                              tr_in.initial[i])
                \o StraightTrack(StepsInside(1, -tr_in.step), -tr_in.step,
                                 tr_in.initial[i])

\* a straight ridge has been traced over six steps or more with max_missed = 0
C7_Witness ==
    /\ tr_pc = "done"
    /\ tr_in.straight
    /\ tr_in.max_missed = 0
    /\ Len(tr_in.initial) = 1
    /\ Len(coord_lists[1]) >= 6
    /\ \A k \in 1..Len(coord_lists[1]) : coord_lists[1][k][2] = tr_in.initial[1]

\* C18 as stated: in the returned coord_lists the coordinates of each
\* feature run monotonically along the stepping axis, all ascending or all
\* descending.
C18_Original ==
    tr_pc = "done" =>
        \A i \in Features :
            LET track == coord_lists[i]
            IN  \/ \A k \in 1..(Len(track) - 1) : track[k][1] < track[k + 1][1]
                \/ \A k \in 1..(Len(track) - 1) : track[k][1] > track[k + 1][1]

\* C18 amended: each feature's coordinates are those found in the first
\* direction, in order of increasing distance from start, followed by those
\* found in the opposite direction, again in order of increasing distance
\* from start; none lies at start.
C18_Amended ==
    \A i \in 1..Len(coord_lists) :
        LET track == coord_lists[i]
            ahead(k) == (track[k][1] - 2 * tr_in.start) * tr_in.step
        IN  /\ \A k \in 1..Len(track) : ahead(k) # 0
            /\ \A k \in 1..(Len(track) - 1) :
                   \/ 0 < ahead(k) /\ ahead(k) < ahead(k + 1)
                   \/ ahead(k + 1) < ahead(k) /\ ahead(k) < 0
                   \/ ahead(k + 1) < 0 /\ 0 < ahead(k)

\* a returned track of two coordinates above start followed by one below it
C18_Witness ==
    /\ tr_pc = "done"
    /\ \E i \in Features :
          /\ Len(coord_lists[i]) = 3
          /\ 2 * tr_in.start < coord_lists[i][1][1]
          /\ coord_lists[i][1][1] < coord_lists[i][2][1]
          /\ coord_lists[i][3][1] < 2 * tr_in.start

\* feature i, alive, was looked for at this step and found in no profile:
\* it stays as it was, with one more step since its last coordinate
NotFound(i) ==
    /\ tr_pc = "loop"
    /\ last_coords[i][2] # None
    /\ last_coords'[i] = last_coords[i]
    /\ missed'[i] = missed[i] + 1

\* C19 as stated: a step at which some feature still alive is not found in
\* the freshest collapse sets lookback to 0.
C19_Original ==
    [][(\E i \in DOMAIN missed : NotFound(i)) => lookback' = 0]_vars

\* C19 amended: a step at which a feature still alive is looked for and not
\* found leaves lookback at min(lookback + 1, max_missed); lookback falls
\* to 0 below that value only at a step that looks for no feature at all
\* (the collapsed rows are dead), and at the head of a direction.
C19_Amended ==
    [][tr_pc = "loop" =>
         /\ (\E i \in DOMAIN missed : NotFound(i))
               => lookback' = Min(lookback + 1, tr_in.max_missed)
         /\ lookback' # Min(lookback + 1, tr_in.max_missed)
               => /\ lookback' = 0
                  /\ UNCHANGED <<last_coords, coord_lists, missed>>]_vars

\* after the first step, at which the one feature was not found, lookback
\* is 1
C19_Witness ==
    /\ tr_pc = "loop" /\ tr_in.max_missed = 1 /\ lookback = 1
    /\ ypos = 2 * (tr_in.start + step)
    /\ Len(missed) = 1 /\ missed[1] = 1 /\ last_coords[1][2] # None

\* C20: in every state of trace_lines 0 <= lookback <= max_missed, so that
\* the lookback + 1 profiles built at a step fit the max_missed + 1 rows
\* allocated; and a coordinate appended at a step comes from the profile at
\* an index j of 0..lookback, which puts it at ypos - 0.5 * j * step.
C20_LookbackBounded ==
    [][/\ 0 <= lookback /\ lookback <= tr_in.max_missed
       /\ 0 <= lookback' /\ lookback' <= tr_in.max_missed
       /\ lookback' + 1 <= tr_in.max_missed + 1
       /\ \A i \in DOMAIN coord_lists :
             coord_lists'[i] # coord_lists[i] =>
                 \E j \in 0..lookback' :
                     /\ j + 1 <= tr_in.max_missed + 1
                     /\ coord_lists'[i][Len(coord_lists'[i])][1]
                           = ypos' - j * step]_vars

\* lookback has reached max_missed = 1 and the one feature has its first
\* coordinate from the profile at index 1, half a step before ypos
C20_Witness ==
    /\ tr_pc = "loop" /\ tr_in.max_missed = 1 /\ lookback = 1
    /\ Len(coord_lists) = 1 /\ Len(coord_lists[1]) = 1
    /\ coord_lists[1][1][1] = ypos - step

\* feature i is alive and this step looks for it in a live collapse
LookedFor(i) ==
    tr_pc = "loop" /\ tr_peaks' # None /\ last_coords[i][2] # None

\* the coordinate appended for feature i at this step, if any
Appended(i) ==
    IF coord_lists'[i] = coord_lists[i] THEN None
    ELSE Some(coord_lists'[i][Len(coord_lists'[i])])

\* C21 as stated: for a feature that has missed m steps, the nearest
\* candidate of the freshest collapse is accepted whenever it lies within
\* max_shift * (m + 1) * |step| of the last known position, and a
\* coordinate comes from a coarser collapse only when it does not.
C21_Original ==
    [][\A i \in DOMAIN last_coords :
          LookedFor(i) =>
              LET old  == last_coords[i][2][1]
                  m    == StepsMissed(ypos', last_coords[i][1])
                  near == Nearest(tr_peaks'[1], old)
                  within == /\ near # -1
                            /\ Abs(near - old) <= MaxShift * (m + 1) * Abs(step)
              IN  /\ within => \/ last_coords'[i] = <<ypos', Some(near)>>
                               \/ last_coords'[i][2] = None
                  /\ (Appended(i) # None /\ Appended(i)[1][1] # ypos')
                        => ~within]_vars

\* C21 amended: the nearest candidate of the freshest collapse is accepted
\* whenever it lies within max_shift * |step| of the last known position,
\* however many steps the feature has missed; when it does not, the
\* collapses over j + 1 steps, j = 1 .. min(m, lookback), are consulted in
\* turn, and the candidate of collapse j is accepted within
\* max_shift * (j + 1) * |step|.
C21_Amended ==
    [][\A i \in DOMAIN last_coords :
          LookedFor(i) =>
              LET old  == last_coords[i][2][1]
                  m    == StepsMissed(ypos', last_coords[i][1])
                  near == Nearest(tr_peaks'[1], old)
                  fresh == /\ near # -1
                           /\ Abs(near - old) <= MaxShift * Abs(step)
              IN  /\ fresh => \/ last_coords'[i] = <<ypos', Some(near)>>
                              \/ last_coords'[i][2] = None
                  /\ Appended(i) # None =>
                        \E j \in 0..Min(m, lookback') :
                            /\ Appended(i)[1][1] = ypos' - j * step
                            /\ Abs(Appended(i)[1][2] - old)
                                  <= MaxShift * (j + 1) * Abs(step)
                            /\ j = 0 => fresh /\ Appended(i)[1][2] = near
                            /\ j > 0 => ~fresh]_vars

\* the one feature, missed at the first step, has its first coordinate from
\* the collapse over two steps, the freshest collapse holding a candidate
\* one pixel from the starting position
C21_Witness ==
    /\ tr_pc = "loop" /\ step = 1 /\ tr_in.initial = <<6>>
    /\ ypos = 2 * tr_in.start + 4
    /\ tr_peaks \in {Some(<<4>>), Some(<<8>>)}
    /\ Len(coord_lists[1]) = 1 /\ coord_lists[1][1][1] = ypos - 1

\* C22 as stated: a position within half the centroiding halfwidth of
\* either spatial boundary is rejected by the edge rule, the same margin at
\* the low and at the high edge, and no such position is in a track; and
\* the rule can fire: pinpoint_peaks returns positions that it rejects.
C22_Original ==
    /\ \A i \in DOMAIN coord_lists :
          \A k \in 1..Len(coord_lists[i]) :
              /\ coord_lists[i][k][2] >= TraceHalfwidth
              /\ coord_lists[i][k][2] <= 2 * TrWidth - TraceHalfwidth
    /\ \A p \in 0..(2 * TrWidth) :
          TooClose(p) <=> (p < TraceHalfwidth \/ p > 2 * TrWidth - TraceHalfwidth)
    /\ \E p \in 0..(2 * TrWidth) :
          /\ ~TooCloseToEdge(p, Halfwidth(TraceHalfwidth), TrWidth)
          /\ TooClose(p)

\* the passes of "while True" made so far in this direction
Iterations == Abs(ypos - 2 * tr_in.start) \div (2 * Abs(step))

\* C23: each direction ends, and so does the call; a direction stops at the
\* first step position outside nsum/2 .. H - nsum/2 or at the first step
\* after which every feature is lost (the first of all when there is no
\* feature), after at most floor(H/|step|) + 1 passes; step has the sign
\* given in the first direction and the opposite one in the second.
C23_Terminates ==
    /\ [](tr_pc \in {"loop", "end"} =>
            /\ Iterations <= tr_in.rows \div Abs(step) + 1
            /\ step = IF Len(tr_dirs) = 2 THEN tr_in.step ELSE -tr_in.step
            /\ (tr_pc = "loop" /\ Iterations > 0) =>
                  /\ InsideBand(ypos)
                  /\ \E i \in DOMAIN last_coords : last_coords[i][2] # None
            /\ tr_pc = "end" =>
                  \/ ~InsideBand(ypos)
                  \/ \A i \in DOMAIN last_coords : last_coords[i][2] = None)
    /\ <>(tr_pc = "done")

\* a direction has ended after floor(H/|step|) + 1 passes, the most there
\* can be
C23_Witness ==
    /\ tr_pc = "end" /\ Len(tr_dirs) = 2
    /\ Iterations = tr_in.rows \div Abs(step) + 1
    /\ ~InsideBand(ypos)

\* C29: within a direction, a feature whose position is NaN gets no
\* coordinate appended and its last_coords entry stays as it is; the head of
\* each direction puts every feature, the lost ones too, back at its initial
\* position at row start, so that a feature lost in the first direction is
\* looked for again in the second.
C29_LossPerDirection ==
    [][\A i \in DOMAIN coord_lists :
          /\ (tr_pc # "begin" /\ last_coords[i][2] = None) =>
                /\ coord_lists'[i] = coord_lists[i]
                /\ last_coords'[i] = last_coords[i]
          /\ tr_pc = "begin" =>
                /\ last_coords'[i] = <<2 * tr_in.start, Some(tr_in.initial[i])>>
                /\ coord_lists'[i] = coord_lists[i]
                /\ tr_pc' = "loop" /\ ypos' = 2 * tr_in.start]_vars

\* the second direction is about to start, the first having traced a
\* feature over a step or more and then lost it
C29_Witness ==
    /\ tr_pc = "begin" /\ Len(tr_dirs) = 1
    /\ \E i \in DOMAIN coord_lists :
          coord_lists[i] # <<>> /\ last_coords[i][2] = None

\* a step inside the band whose freshest collapse is dead
DeadStep == tr_pc = "loop" /\ InsideBand(ypos') /\ tr_peaks' = None

\* C30: a step of trace_lines whose freshest collapse is dead appends no
\* coordinate, changes no feature's last_coords entry and so marks none
\* lost, however many steps a feature has missed; it moves ypos on by a step
\* and sets lookback to 0.
C30_DeadStepFrame ==
    [][DeadStep =>
          /\ coord_lists' = coord_lists
          /\ last_coords' = last_coords
          /\ lookback' = 0
          /\ ypos' = ypos + 2 * step
          /\ step' = step]_vars

\* dead steps have taken a feature more than max_missed steps past its last
\* known position, and it is not lost
C30_Witness ==
    /\ tr_pc = "loop" /\ tr_peaks = None /\ lookback = 0 /\ InsideBand(ypos)
    /\ \E i \in DOMAIN last_coords :
          /\ last_coords[i][2] # None
          /\ StepsMissed(ypos, last_coords[i][1]) > tr_in.max_missed

\* C17 as stated: with initial_tolerance set, the starting positions are
\* settled without an exception, also when pinpoint_peaks returns no peak;
\* every position kept lies within initial_tolerance of a peak the caller
\* gave, and a peak with no pinpointed position that near leaves none.
C17_Original ==
    (st_pc # "call" /\ st_in.initial_tolerance # None) =>
        /\ st_pc = "returned"
        /\ \A k \in 1..Len(initial_peaks) :
               \E m \in 1..Len(st_in.initial) :
                   Abs(initial_peaks[k] - st_in.initial[m])
                       <= st_in.initial_tolerance[1]
        /\ Len(initial_peaks) =
               Cardinality({m \in 1..Len(st_in.initial) :
                   \E j \in 1..Len(st_in.peaks) :
                       Abs(st_in.peaks[j] - st_in.initial[m])
                           <= st_in.initial_tolerance[1]})

-----------------------------------------------------------------------------
(* Claims about reject_bad_peaks *)

\* With j of the n peaks removed, brightest first, at most 3 remain or the
\* brightest left is at most 3 times the 4th-brightest left (by holds the
\* peaks in ascending order of strength)
RejectionStops(by, j) ==
    LET left == Len(by) - j
    IN  left <= 3 \/ by[left][2] <= 3 * by[left - 3][2]

\* C11: reject_bad_peaks returns the input peaks with the k brightest
\* removed, k being the smallest number for which at most 3 peaks remain or
\* the brightest remaining peak is at most 3 times as strong as the
\* 4th-brightest remaining; no peak but the brightest is ever removed, and
\* at least min(3, n) peaks are left.
C11_RejectBrightest ==
    rb_pc = "returned" =>
        LET n == Len(rb_in)
            by == SortBy(rb_in, "snr")
            k == n - Len(rb_peaks)
        IN  /\ k \in 0..n
            /\ Range(rb_peaks) = Range(SubSeq(by, 1, n - k))
            /\ \A a \in Range(rb_peaks), b \in Range(rb_in) \ Range(rb_peaks) :
                   a[2] <= b[2]
            /\ RejectionStops(by, k)
            /\ \A j \in 0..(k - 1) : ~RejectionStops(by, j)
            /\ Len(rb_peaks) >= Min(3, n)

\* reject_bad_peaks has removed one peak of five and kept four
C11_Witness ==
    /\ rb_pc = "returned"
    /\ Len(rb_in) = 5
    /\ Len(rb_peaks) = 4

-----------------------------------------------------------------------------
(* Claims about get_limits *)

\* C12: with method=None get_limits returns one (lower, upper) pair for each
\* peak, in the order of the peaks: lower the largest minimum strictly below
\* the peak (0 if there is none), upper the smallest minimum strictly above
\* it (N - 1 if there is none); so lower < peak < upper for a peak strictly
\* inside (0, N - 1).
C12_Original ==
    (gl_pc # "call" /\ gl_in.method = None) =>
        /\ gl_pc = "returned"
        /\ Len(all_limits) = Len(gl_in.peaks)
        /\ \A k \in 1..Len(gl_in.peaks) :
               LET peak == gl_in.peaks[k]
                   below == {x \in Range(gl_in.minima) : x < peak}
                   above == {x \in Range(gl_in.minima) : x > peak}
                   lower == all_limits[k][1]
                   upper == all_limits[k][2]
               IN  /\ lower = IF below = {} THEN 0
                              ELSE CHOOSE x \in below : \A z \in below : z <= x
                   /\ upper = IF above = {} THEN 2 * (gl_in.n - 1)
                              ELSE CHOOSE x \in above : \A z \in above : x <= z
                   /\ (0 < peak /\ peak < 2 * (gl_in.n - 1)) =>
                          (lower < peak /\ peak < upper)

=============================================================================
